---- MODULE Spec2Model ----
(***************************************************************************)
(* Repeated, stratified, group-wise K-fold cross-validation over the ABT:  *)
(* trent/abt/torch_data.py and trent/abt/sklearn_cv_data.py.               *)
(*                                                                         *)
(* A table is a sequence of rows.  A cell is <<>> when it is missing (NaN) *)
(* and <<v>> when it holds the number v.  Every row carries `row`, the     *)
(* position of the row in the CSV: it is the identity of the row, not a    *)
(* column of the table.  The 17 feature columns are handled alike by the   *)
(* code except infection_momentum; the model keeps tmpf_mean (not imputed) *)
(* and infection_momentum (imputed), in their declared order.              *)
(*                                                                         *)
(* The library generators (Python random, numpy RandomState) are replaced  *)
(* by a Lehmer generator modulo 65537: what the code relies on is that a   *)
(* generator is a deterministic function of its state, that seeding fixes  *)
(* the state, and that drawing advances it.                                *)
(***************************************************************************)
EXTENDS Integers, Sequences, FiniteSets, TLC

VARIABLES
    data,         \* RepeatedStratifiedGroupKFoldOrchestrator.data
    columns,      \* the names of the columns of that table
    folds,        \* RepeatedStratifiedGroupKFoldOrchestrator.folds
    repeats,      \* RepeatedStratifiedGroupKFoldOrchestrator.repeats
    seed,         \* RepeatedStratifiedGroupKFoldOrchestrator.seed
    module,       \* which data module is in use: "torch" or "sklearn"
    pandas,       \* what the installed pandas does in groupby().transform with
                  \* the rows whose key is missing: "raise" or "nan"
    kwargs,       \* the keyword arguments the orchestrator's constructor was
                  \* called with, beside srcfile
    census,       \* the globals of trent.data.census: API_SESSION, API_TABLES
                  \* and API_FIELDS (_API_TABLES and _API_FIELDS), and with
                  \* them `environ`, the CENSUS_API_KEY of the environment,
                  \* `created`, the sessions created so far, `filled`, the
                  \* caches assigned so far, and `ret`, the outcome of the
                  \* last call of a census function
    pyRandom,     \* state of the process-wide Python `random` generator
    npRandom,     \* state of the process-wide numpy generator
    torchRandom,  \* state of the process-wide torch generator
    its,          \* the generator objects made by the orchestrator's __iter__,
                  \* each with `repeat`, the splitter it yielded last as it
                  \* was when yielded,
                  \* `before`, the state of the Python generator it started
                  \* from, and `yields`, the history of its yields: repeat
                  \* index, row identities in order, fold of each row
    kcv,          \* the _StratifiedGroupKFoldOrchestrator the consumer holds, with
                  \* `shares`, the tables its table shares storage with, `i`, the
                  \* index of its repeat, `asyielded`, what it held when yielded,
                  \* and `earlier`, the logs of the earlier iterations over it
    ifold,        \* position of that splitter's __iter__ generator
    pair,         \* the (train, test) pair that generator yielded last
    log,          \* history: the rows of every pair that generator has yielded,
                  \* as [train, test] sequences of row identities, fold 1 first
    ret           \* what the last len(view) / view[i] call returned, or the
                  \* error the last next() on the fold generator, or the
                  \* constructor of the orchestrator, raised

vars == <<data, columns, folds, repeats, seed, module, pandas, kwargs, census, pyRandom, npRandom, torchRandom,
          its, kcv, ifold, pair, log, ret>>

----------------------------------------------------------------------------
(* Bounds of the model *)

MaxRows == 3        \* rows of a source table whose keys are drawn
MaxFolds == 3       \* largest K
MaxRepeats == 2     \* largest R
MaxViewRows == 3    \* rows of a source table whose values are drawn
MaxPairRows == 2    \* rows of a source table iterated by two orchestrators
MaxCountRows == 2   \* rows of a source table split with any folds and repeats
MaxColumnRows == 2  \* rows of a source table that lacks a column
MaxLimitRows == 1   \* rows of a source table repeated up to the sub-seed pool
MaxOpsRows == 2     \* rows of a source table on which every operation is run
MaxConsumerRows == 2  \* rows of a source table iterated by a consumer that reseeds
MaxFrozenRows == 2  \* rows of a source table whose orchestrator the consumer edits
MaxNullRows == 2    \* rows of a source table whose keys may be missing
MaxConfigRows == 1  \* rows of a source table read by a configured orchestrator
MaxReiterRows == 2  \* rows of a source table whose splitter is iterated again
MaxIterations == 2  \* further iterations over one splitter

Counties == {1, 2, 3}
States == {1, 2}
Seeds == {0, 1}
ConsumerSeeds == {7}
Modules == {"torch", "sklearn"}

(* Program constants *)
PoolSize == 1000    \* range(1000), the pool the sub-seeds are sampled from
ImputeValue == 1    \* the value written over a missing infection_momentum

NaN == <<>>
None == [none |-> TRUE]

\* What `ret` holds after a call that raised.
Raised == [raised |-> TRUE]

----------------------------------------------------------------------------
(* Sequence helpers *)

RECURSIVE SumSeq(_)
SumSeq(s) == IF s = <<>> THEN 0 ELSE Head(s) + SumSeq(Tail(s))

RECURSIVE Flatten(_)
Flatten(ss) == IF ss = <<>> THEN <<>> ELSE Head(ss) \o Flatten(Tail(ss))

Remove(s, j) == [q \in 1..(Len(s) - 1) |-> IF q < j THEN s[q] ELSE s[q + 1]]

Range(s) == {s[q] : q \in DOMAIN s}

----------------------------------------------------------------------------
(* Library generators *)

LcgNext(s) == (75 * s) % 65537

\* random.seed(a) / np.random.seed(a) / torch.manual_seed(a) / RandomState(a)
SeedState(a) == (a % 65536) + 1

\* random.sample's draw of one index not selected before (rejection loop)
RECURSIVE DrawFresh(_, _, _)
DrawFresh(s, n, selected) ==
    LET s1 == LcgNext(s)
        j == s1 % n
    IN  IF j \in selected THEN DrawFresh(s1, n, selected)
        ELSE [state |-> s1, val |-> j]

\* random.sample's selections by rejection: k more distinct values of 0..n-1
\* after those of `out`, and the state the generator is left in.
RECURSIVE SampleFrom(_, _, _, _)
SampleFrom(s, n, k, out) ==
    IF k = 0 THEN [ok |-> TRUE, state |-> s, out |-> out]
    ELSE LET d == DrawFresh(s, n, Range(out))
         IN  SampleFrom(d.state, n, k - 1, Append(out, d.val))

\* random.sample's selections number lo + 1 .. hi out of a pool list: each takes
\* pool[j] for a drawn j below the number of values left, and moves the last
\* value left into its place.  The halves are evaluated one after the other:
\* a generator state is never 0, and the tests on it fix the order.
RECURSIVE PoolDraws(_, _, _, _, _)
PoolDraws(s, pool, n, lo, hi) ==
    IF hi = lo THEN [state |-> s, pool |-> pool, out |-> <<>>]
    ELSE IF hi = lo + 1
    THEN LET s1 == LcgNext(s)
             j == (s1 % (n - lo)) + 1
         IN  [state |-> s1, pool |-> [pool EXCEPT ![j] = pool[n - lo]], out |-> <<pool[j]>>]
    ELSE LET mid == (lo + hi) \div 2
             a == PoolDraws(s, pool, n, lo, mid)
         IN  IF a.state = 0 THEN a
             ELSE LET b == PoolDraws(a.state, a.pool, n, mid, hi)
                  IN  IF b.state = 0 THEN b
                      ELSE [state |-> b.state, pool |-> b.pool, out |-> a.out \o b.out]

\* The least power of 4 that is at least m.
RECURSIVE PowerOf4(_, _)
PowerOf4(m, p) == IF p >= m THEN p ELSE PowerOf4(m, 4 * p)

\* random.sample's estimate of the size of a set of k selections.
SetSize(k) == IF k > 5 THEN 21 + PowerOf4(3 * k, 1) ELSE 21

\* random.sample(range(n), k): ValueError when k > n or k < 0; the pool list when
\* the population is no larger than the set would be, the rejection loop otherwise.
RandomSample(s, n, k) ==
    IF k > n \/ k < 0 THEN [ok |-> FALSE, state |-> s, out |-> <<>>]
    ELSE IF n <= SetSize(k)
    THEN LET d == PoolDraws(s, [q \in 1..n |-> q - 1], n, 0, k)
         IN  [ok |-> TRUE, state |-> d.state, out |-> d.out]
    ELSE SampleFrom(s, n, k, <<>>)

\* DataFrame.sample(frac=1, random_state=rs): every row once, in the order a
\* generator freshly seeded with rs draws them; the rows keep their identity.
RECURSIVE Shuffle(_, _)
Shuffle(rows, s) ==
    IF Len(rows) <= 1 THEN rows
    ELSE LET s1 == LcgNext(s)
             j == (s1 % Len(rows)) + 1
         IN  <<rows[j]>> \o Shuffle(Remove(rows, j), s1)

SampleFrac1(rows, rs) == Shuffle(rows, SeedState(rs))

----------------------------------------------------------------------------
(* _StratifiedGroupKFoldOrchestrator.__init__ *)

\* drop_duplicates(): the first occurrence of every element, in order
RECURSIVE DropDuplicates(_, _)
DropDuplicates(s, seen) ==
    IF s = <<>> THEN <<>>
    ELSE IF Head(s) \in seen THEN DropDuplicates(Tail(s), seen)
    ELSE <<Head(s)>> \o DropDuplicates(Tail(s), seen \cup {Head(s)})

\* Mutant: the fold table is made without drop_duplicates().
LookupAll(rows) ==
    [q \in DOMAIN rows |-> <<rows[q].county_fip, rows[q].state_code>>]

\* data.loc[:, ["county_fip", "state_code"]].drop_duplicates()
Lookup(rows) ==
    DropDuplicates([q \in DOMAIN rows |-> <<rows[q].county_fip, rows[q].state_code>>], {})

\* numpy's integer remainder a % K for a >= 0: the sign of the divisor, and 0
\* (with a warning) when K = 0.
NpMod(a, K) ==
    IF K = 0 THEN 0 ELSE IF K > 0 THEN a % K ELSE 0 - ((0 - a) % (0 - K))

\* Mutant: fold numbers counted from 0.
FoldColumnZeroBased(lookup, K) ==
    [q \in DOMAIN lookup |->
        NpMod(Cardinality({r \in 1..(q - 1) : lookup[r][2] = lookup[q][2]}), K)]

\* Mutant: the counter runs over the whole lookup, not per state_code.
FoldColumnUngrouped(lookup, K) == [q \in DOMAIN lookup |-> NpMod(q - 1, K) + 1]

\* Mutant: the fold number is taken from the county_fip, not from the position.
FoldColumnByGroup(lookup, K) ==
    [q \in DOMAIN lookup |-> NpMod(lookup[q][1], K) + 1]

\* Mutant: the counter does not wrap at folds.
FoldColumnNoWrap(lookup, K) ==
    [q \in DOMAIN lookup |->
        Cardinality({r \in 1..(q - 1) : lookup[r][2] = lookup[q][2]}) + 1]

\* A missing key (NaN) of a row, and the fold number NaN: isin() finds it in no
\* list of fold numbers.
NullKey == 0
NaNFold == 0 - 1

\* groupby("state_code")["county_fip"].transform(lambda c: np.arange(len(c)) % folds + 1):
\* entry q of the lookup gets its position among the entries of its state_code,
\* modulo folds, plus one.  groupby() leaves out the entries whose state_code
\* is missing: the lambda never sees them, and their fold number is NaN.
FoldColumn(lookup, K) ==
    [q \in DOMAIN lookup |->
        IF lookup[q][2] = NullKey THEN NaNFold
        ELSE NpMod(Cardinality({r \in 1..(q - 1) : lookup[r][2] = lookup[q][2]}), K) + 1]

\* What groupby().transform does when groupby() left entries out: a pandas
\* that sets the index of the shorter result raises ValueError (length
\* mismatch), a pandas that reindexes the result fills it with NaN.
GroupbyOutcomes == {"raise", "nan"}
TransformRaises(lookup) ==
    pandas = "raise" /\ \E q \in DOMAIN lookup : lookup[q][2] = NullKey

\* data.merge(lookup, on=["county_fip", "state_code"]): the inner join, in the
\* order of the left rows (the documented order); a row appears once per
\* lookup entry with its keys, and the index is renumbered.
MergedRow(r, f) ==
    [row |-> r.row, county_fip |-> r.county_fip, state_code |-> r.state_code,
     acs_pop_total |-> r.acs_pop_total, infection_momentum |-> r.infection_momentum,
     tmpf_mean |-> r.tmpf_mean, infection_target |-> r.infection_target,
     unemployment_target |-> r.unemployment_target, fold |-> f]

RECURSIVE MatchesOf(_, _, _, _)
MatchesOf(r, lookup, foldcol, q) ==
    IF q > Len(lookup) THEN <<>>
    ELSE (IF lookup[q] = <<r.county_fip, r.state_code>>
          THEN <<MergedRow(r, foldcol[q])>> ELSE <<>>)
         \o MatchesOf(r, lookup, foldcol, q + 1)

Merge(rows, lookup, foldcol) ==
    Flatten([q \in DOMAIN rows |-> MatchesOf(rows[q], lookup, foldcol, 1)])

\* The columns the splitter reads: the group and the stratum.
KeyColumns == {"county_fip", "state_code"}

\* The constructor: the fold table, the join, and the assertion on the row count;
\* selecting a column the table lacks raises KeyError.
NewSplitter(rows, K) ==
    LET lookup == Lookup(rows)
        merged == Merge(rows, lookup, FoldColumn(lookup, K))
    IN  IF KeyColumns \subseteq columns /\ ~TransformRaises(lookup)
           /\ Len(merged) = Len(rows)
        THEN [ok |-> TRUE, data |-> merged, folds |-> K]
        ELSE [ok |-> FALSE, data |-> <<>>, folds |-> K]

----------------------------------------------------------------------------
(* _ABTDataset *)

\* Mutant: every missing value of the row is filled, not only the momentum.
ImputeEveryColumn(sub) ==
    [q \in DOMAIN sub |->
        [sub[q] EXCEPT !.infection_momentum = IF @ = NaN THEN <<ImputeValue>> ELSE @,
                       !.tmpf_mean = IF @ = NaN THEN <<ImputeValue>> ELSE @,
                       !.infection_target = IF @ = NaN THEN <<ImputeValue>> ELSE @]]

\* self.data.loc[self.data.infection_momentum.isna(), "infection_momentum"] = 1
Impute(sub) ==
    [q \in DOMAIN sub |->
        IF sub[q].infection_momentum = NaN
        THEN [sub[q] EXCEPT !.infection_momentum = <<ImputeValue>>]
        ELSE sub[q]]

\* Conversion of a number to float32 (round to nearest, ties to even); the
\* model's numbers are integers below 2^25.
F32(v) ==
    IF v <= 16777216 THEN v
    ELSE IF v % 2 = 0 THEN v
    ELSE IF (v - 1) % 4 = 0 THEN v - 1 ELSE v + 1

F32Cell(c) == IF c = NaN THEN NaN ELSE <<F32(c[1])>>

\* .values.astype(float): float64 holds the model's integers exactly
F64Cell(c) == c

\* Square root of a population; the model's populations are perfect squares.
ISqrt(n) == CHOOSE r \in 0..n : r * r = n

\* Mutant: the weights are laid out in the reverse of the order of the rows.
TorchZmatReversed(d) ==
    LET total == SumSeq([q \in DOMAIN d |-> d[q].acs_pop_total[1]])
    IN  [q \in DOMAIN d |->
            [num |-> ISqrt(d[Len(d) + 1 - q].acs_pop_total[1]), densq |-> total]]

\* A weight num / sqrt(densq) is kept as the record [num, densq].
\* torch: sqrt(tensor(pop)) / sqrt(sum(tensor(pop)))
TorchZmat(d) ==
    LET total == SumSeq([q \in DOMAIN d |-> d[q].acs_pop_total[1]])
    IN  [q \in DOMAIN d |-> [num |-> ISqrt(d[q].acs_pop_total[1]), densq |-> total]]

\* sklearn: np.sqrt(pop) / np.sum(np.sqrt(pop))
SklearnZmat(d) ==
    LET total == SumSeq([q \in DOMAIN d |-> ISqrt(d[q].acs_pop_total[1])])
    IN  [q \in DOMAIN d |-> [num |-> ISqrt(d[q].acs_pop_total[1]), densq |-> total * total]]

TorchABTDataset(sub) ==
    LET d == Impute(sub)
    IN  [module |-> "torch",
         data |-> d,
         zmat |-> TorchZmat(d),
         ymat |-> [q \in DOMAIN d |-> <<F32Cell(d[q].infection_target),
                                        F32Cell(d[q].unemployment_target)>>],
         xmat |-> [q \in DOMAIN d |-> <<F32Cell(d[q].tmpf_mean),
                                        F32Cell(d[q].infection_momentum)>>]]

SklearnABTDataset(sub) ==
    LET d == Impute(sub)
    IN  [module |-> "sklearn",
         data |-> d,
         zmat |-> SklearnZmat(d),
         ymat |-> [q \in DOMAIN d |-> <<F64Cell(d[q].infection_target),
                                        F64Cell(d[q].unemployment_target)>>],
         xmat |-> [q \in DOMAIN d |-> <<F64Cell(d[q].tmpf_mean),
                                        F64Cell(d[q].infection_momentum)>>]]

ABTDataset(m, sub) == IF m = "torch" THEN TorchABTDataset(sub) ELSE SklearnABTDataset(sub)

\* __len__: self.data.shape[0]
ViewLength(view) == Len(view.data)

\* __getitem__(i), i a Python index (from 0)
TorchGetItem(view, i) == <<view.xmat[i + 1], view.ymat[i + 1], view.zmat[i + 1]>>

SklearnGetItem(view, i) == <<view.xmat, view.ymat, view.zmat>>

GetItem(view, i) ==
    IF view.module = "torch" THEN TorchGetItem(view, i) ELSE SklearnGetItem(view, i)

----------------------------------------------------------------------------
(* _StratifiedGroupKFoldOrchestrator.__iter__ and _make_dataset *)

\* Mutant: the selection is handed to _ABTDataset without copy().
ViewSharesRepeat(splitter) == {"repeat"}

\* Mutant: _ABTDataset works on the splitter's own rows, not on a copy.
ViewSharesSplitter(splitter) == {"repeat"} \cup splitter.shares

\* The tables the table of a view shares its storage with: none, it is the
\* copy() of the selection.
ViewShares(splitter) == {}

\* self.data.loc[self.data["__fold"].isin(folds), :] and the copy handed to
\* _ABTDataset
MakeDataset(m, splitter, fs) ==
    ABTDataset(m, SelectSeq(splitter.data, LAMBDA r : r.fold \in fs))

\* Mutant: the test fold is not taken out of the train folds.
TrainFoldsAll(K, f) == 1..K

\* set(range(1, 1 + self.folds)).difference([ifold])
TrainFolds(K, f) == (1..K) \ {f}

\* Mutant: the test fold is taken one further, as if folds were counted from 0.
TestFoldsNext(K, f) == {(f % K) + 1}

\* The test view of fold ifold is _make_dataset(folds=[ifold])
TestFolds(K, f) == {f}

\* The columns _ABTDataset reads: the imputed feature, the weight source, the
\* targets and the features; a view of a table that lacks one is not built.
ViewColumns ==
    {"infection_momentum", "acs_pop_total", "infection_target",
     "unemployment_target", "tmpf_mean"}

AllColumns == KeyColumns \cup ViewColumns

FoldPair(m, splitter, f) ==
    [train |-> MakeDataset(m, splitter, TrainFolds(splitter.folds, f)),
     test |-> MakeDataset(m, splitter, TestFolds(splitter.folds, f))]

\* Everything one iteration over the splitter yields, fold 1 first.
AllPairs(m, splitter) == [f \in 1..splitter.folds |-> FoldPair(m, splitter, f)]

----------------------------------------------------------------------------
(* Source tables.  Every row has its county_fip and its state_code; a       *)
(* county_fip may occur under several state_code.                          *)

\* A row whose keys are drawn and whose values follow from its position.
KeyedRow(p, c, st) ==
    [row |-> p, county_fip |-> c, state_code |-> st,
     acs_pop_total |-> <<IF p % 2 = 1 THEN 4 ELSE 1>>,
     infection_momentum |-> IF p % 2 = 1 THEN NaN ELSE <<2>>,
     tmpf_mean |-> <<60 + p>>,
     infection_target |-> <<p>>,
     unemployment_target |-> <<10 + p>>]

\* A row whose values are drawn: county p of state 1.
ValuedRow(p, pop, mom, tmpf) ==
    [row |-> p, county_fip |-> p, state_code |-> 1,
     acs_pop_total |-> <<pop>>,
     infection_momentum |-> mom,
     tmpf_mean |-> tmpf,
     infection_target |-> IF p % 2 = 1 THEN NaN ELSE <<5>>,
     unemployment_target |-> <<IF p % 2 = 1 THEN 16777219 ELSE 7>>]

KeyedTables(maxRows) ==
    UNION {{[p \in 1..n |-> KeyedRow(p, keys[p][1], keys[p][2])] :
                keys \in [1..n -> Counties \X States]} : n \in 1..maxRows}

ValuedTables(maxRows) ==
    UNION {{[p \in 1..n |-> ValuedRow(p, v[p][1], v[p][2], v[p][3])] :
                v \in [1..n -> {1, 4} \X {NaN, <<2>>} \X {NaN, <<16777217>>}]} :
           n \in 1..maxRows}

----------------------------------------------------------------------------
(* trent.data.census *)

\* API keys, and the absence of one: the argument None, or no CENSUS_API_KEY
\* in the environment.
ApiKeys == {"key1", "key2"}
NoKey == "None"

\* The outcomes of a request to the Census API: an exception, or an answer,
\* empty or not.
ApiOutcomes == {"raise", "empty", "full"}
Answer(o) == IF o = "full" THEN {"B01003"} ELSE {}

\* The module after import.
CensusLoaded(env) ==
    [API_SESSION |-> None, API_TABLES |-> {}, API_FIELDS |-> {}, environ |-> env,
     created |-> <<>>, filled |-> <<>>, ret |-> None]

\* The branch of _get_api_client that creates the session, with the key given
\* or that of the environment (KeyError when there is none), and fills the
\* caches unless both hold something; t and f are the outcomes of the
\* requests of list_tables and list_fields, whose own _get_api_client()
\* finds the session just set.
CreateSession(c, key, t, f) ==
    IF key = NoKey /\ c.environ = NoKey
    THEN [census |-> c, ok |-> FALSE, value |-> None]
    ELSE LET session == [key |-> IF key = NoKey THEN c.environ ELSE key,
                         id |-> Len(c.created) + 1]
             c1 == [c EXCEPT !.API_SESSION = session, !.created = Append(@, session)]
             c2 == [c1 EXCEPT !.API_TABLES = Answer(t), !.filled = Append(@, "tables")]
             c3 == [c2 EXCEPT !.API_FIELDS = Answer(f), !.filled = Append(@, "fields")]
         IN  IF c1.API_FIELDS # {} /\ c1.API_TABLES # {}
             THEN [census |-> c1, ok |-> TRUE, value |-> session]
             ELSE IF t = "raise" THEN [census |-> c1, ok |-> FALSE, value |-> None]
             ELSE IF f = "raise" THEN [census |-> c2, ok |-> FALSE, value |-> None]
             ELSE [census |-> c3, ok |-> TRUE, value |-> session]

\* Mutant: a call with another key than the session's makes a new session.
GetApiClientRekeyed(c, key, t, f) ==
    IF c.API_SESSION # None /\ (key = NoKey \/ key = c.API_SESSION.key)
    THEN [census |-> c, ok |-> TRUE, value |-> c.API_SESSION]
    ELSE CreateSession(c, key, t, f)

\* _get_api_client(key)
GetApiClient(c, key, t, f) ==
    IF c.API_SESSION # None
    THEN [census |-> c, ok |-> TRUE, value |-> c.API_SESSION]
    ELSE CreateSession(c, key, t, f)

\* _get_fields_for_table(tbl, api_key): _init_api(key) when the field cache
\* is empty
GetFieldsForTable(c, key, t, f) ==
    IF c.API_FIELDS = {} THEN GetApiClient(c, key, t, f)
    ELSE [census |-> c, ok |-> TRUE, value |-> None]

\* What a census function leaves in `ret`: its name, the key it was given,
\* the session it worked with, and whether it returned.
Outcome(name, key, g, o) ==
    [call |-> name, key |-> key, session |-> g.value, ok |-> g.ok /\ o # "raise"]

----------------------------------------------------------------------------
(* State after construction *)

NewGenerator ==
    [pc |-> "created", random_states |-> <<>>, i |-> 0, repeat |-> None, before |-> 0,
     yields |-> <<>>]

InitRun(gens) ==
    /\ module \in Modules
    /\ kwargs = [folds |-> folds, repeats |-> repeats, seed |-> seed]
    /\ \E c \in ConsumerSeeds :
          /\ pyRandom = SeedState(c)
          /\ npRandom = SeedState(c)
          /\ torchRandom = SeedState(c)
    /\ its = [k \in gens |-> NewGenerator]
    /\ kcv = None
    /\ ifold = 0
    /\ pair = None
    /\ log = <<>>
    /\ ret = None

\* No census function is called.
InitRest(gens) ==
    /\ InitRun(gens)
    /\ census = CensusLoaded(NoKey)

\* One orchestrator, one iteration; the keys of the table are drawn.
Init ==
    /\ data \in KeyedTables(MaxRows)
    /\ columns = AllColumns
    /\ pandas = "nan"
    /\ folds \in 2..MaxFolds
    /\ repeats \in 1..MaxRepeats
    /\ seed = 0
    /\ InitRest({1})

\* One orchestrator, one iteration; the values of the table are drawn.
InitView ==
    /\ data \in ValuedTables(MaxViewRows)
    /\ columns = AllColumns
    /\ pandas = "nan"
    /\ folds = 2
    /\ repeats = 1
    /\ seed = 0
    /\ InitRest({1})

\* One orchestrator, one iteration; folds and repeats are any small integers,
\* such as the constructor accepts.
InitCounts ==
    /\ data \in KeyedTables(MaxCountRows)
    /\ columns = AllColumns
    /\ pandas = "nan"
    /\ folds \in (0 - 1)..MaxFolds
    /\ repeats \in (0 - 1)..MaxRepeats
    /\ seed = 0
    /\ InitRest({1})

\* One orchestrator, one iteration, over a table that may lack one column;
\* pd.read_csv loads whatever columns the file has.
InitColumns ==
    /\ data \in KeyedTables(MaxColumnRows)
    /\ columns \in {AllColumns} \cup {AllColumns \ {c} : c \in AllColumns}
    /\ pandas = "nan"
    /\ folds \in 2..MaxFolds
    /\ repeats \in 1..MaxRepeats
    /\ seed = 0
    /\ InitRest({1})

\* One orchestrator, one iteration; repeats is 1, the size of the sub-seed pool,
\* or one more.
InitLimit ==
    /\ data \in KeyedTables(MaxLimitRows)
    /\ columns = AllColumns
    /\ pandas = "nan"
    /\ folds = 2
    /\ repeats \in {1, PoolSize, PoolSize + 1}
    /\ seed = 0
    /\ InitRest({1})

\* One orchestrator, one iteration; the values of the table are drawn, and
\* every operation is run on it.
InitOps ==
    /\ data \in ValuedTables(MaxOpsRows)
    /\ columns = AllColumns
    /\ pandas = "nan"
    /\ folds = 2
    /\ repeats \in 1..MaxRepeats
    /\ seed = 0
    /\ InitRest({1})

\* One orchestrator, one iteration, and a consumer that uses the process-wide
\* generators.
InitConsumer ==
    /\ data \in KeyedTables(MaxConsumerRows)
    /\ columns = AllColumns
    /\ pandas = "nan"
    /\ folds \in 2..MaxFolds
    /\ repeats \in 1..MaxRepeats
    /\ seed \in Seeds
    /\ InitRest({1})

\* The folds the consumer of that orchestrator sets, and its repeats.
FrozenFolds == {2, 3}

FrozenRepeats == {2}

\* One orchestrator, one iteration, and a consumer that edits the orchestrator
\* and holds on to splitters.
InitFrozen ==
    /\ data \in KeyedTables(MaxFrozenRows)
    /\ columns = AllColumns
    /\ pandas = "nan"
    /\ folds \in FrozenFolds
    /\ repeats \in FrozenRepeats
    /\ seed = 0
    /\ InitRest({1})

\* Two iterations, of one orchestrator or of two constructed with the same
\* (data, folds, repeats, seed): the fields are equal, so the model keeps them
\* once.
InitPair ==
    /\ data \in KeyedTables(MaxPairRows)
    /\ columns = AllColumns
    /\ pandas = "nan"
    /\ folds = 2
    /\ repeats \in 1..MaxRepeats
    /\ seed = 1
    /\ InitRest({1, 2})

\* The parameters of the constructor of a module's orchestrator, and their
\* defaults.
Parameters(m) ==
    IF m = "torch" THEN {"srcfile", "folds", "repeats", "batch_size", "seed"}
    ELSE {"srcfile", "folds", "repeats", "seed"}

DefaultFolds == 5
DefaultRepeats == 1
DefaultSeed == 0

Arg(kw, name, default) == IF name \in DOMAIN kw THEN kw[name] ELSE default

\* The keyword arguments a caller passes: any of these, each with one value.
CallOptions ==
    [folds |-> 2, repeats |-> 2, seed |-> 1,
     feature_columns |-> <<"tmpf_mean", "infection_momentum">>,
     target_columns |-> <<"infection_target", "unemployment_target">>,
     weight_source_column |-> "acs_pop_total",
     group_column |-> "county_fip",
     stratum_column |-> "state_code"]

Calls == {[n \in ns |-> CallOptions[n]] : ns \in SUBSET (DOMAIN CallOptions)}

\* The state after the call of the constructor with any of these keyword
\* arguments: a keyword that is not a parameter raises TypeError and there is
\* no orchestrator to iterate.
InitConfig ==
    /\ data \in KeyedTables(MaxConfigRows)
    /\ columns = AllColumns
    /\ pandas = "nan"
    /\ module \in Modules
    /\ kwargs \in Calls
    /\ census = CensusLoaded(NoKey)
    /\ \E c \in ConsumerSeeds :
          /\ pyRandom = SeedState(c)
          /\ npRandom = SeedState(c)
          /\ torchRandom = SeedState(c)
    /\ IF DOMAIN kwargs \subseteq Parameters(module)
       THEN /\ folds = Arg(kwargs, "folds", DefaultFolds)
            /\ repeats = Arg(kwargs, "repeats", DefaultRepeats)
            /\ seed = Arg(kwargs, "seed", DefaultSeed)
            /\ its = [k \in {1} |-> NewGenerator]
            /\ ret = None
       ELSE /\ folds = None
            /\ repeats = None
            /\ seed = None
            /\ its = <<>>
            /\ ret = Raised
    /\ kcv = None
    /\ ifold = 0
    /\ pair = None
    /\ log = <<>>

\* One orchestrator of one repeat, whose splitter the consumer iterates more
\* than once.
InitReiter ==
    /\ data \in KeyedTables(MaxReiterRows)
    /\ columns = AllColumns
    /\ pandas = "nan"
    /\ folds = 2
    /\ repeats = 1
    /\ seed = 0
    /\ InitRest({1})

\* The census module after import, with or without a key in the environment,
\* beside an orchestrator that is not iterated.
InitCensus ==
    /\ data = <<KeyedRow(1, 1, 1)>>
    /\ columns = AllColumns
    /\ pandas = "nan"
    /\ folds = 2
    /\ repeats = 1
    /\ seed = 0
    /\ InitRun({1})
    /\ \E env \in ApiKeys \cup {NoKey} : census = CensusLoaded(env)

\* One orchestrator, one iteration, over tables in which the state_code or the
\* county_fip of a row may be missing, under either pandas.
NullCounties == {NullKey, 1, 2}
NullStates == {NullKey, 1}

NullKeyedTables(maxRows) ==
    UNION {{[p \in 1..n |-> KeyedRow(p, keys[p][1], keys[p][2])] :
                keys \in [1..n -> NullCounties \X NullStates]} : n \in 1..maxRows}

InitNull ==
    /\ data \in NullKeyedTables(MaxNullRows)
    /\ columns = AllColumns
    /\ pandas \in GroupbyOutcomes
    /\ folds = 2
    /\ repeats \in 1..MaxRepeats
    /\ seed = 0
    /\ InitRest({1})

----------------------------------------------------------------------------
(* RepeatedStratifiedGroupKFoldOrchestrator.__iter__ *)

\* An in-place write seen through another table that shares the storage: the
\* rows of `target` that were written take the written columns.
WriteThrough(target, written) ==
    [q \in DOMAIN target |->
        IF \E p \in DOMAIN written : written[p].row = target[q].row
        THEN LET w == written[CHOOSE p \in DOMAIN written : written[p].row = target[q].row]
             IN  [c \in DOMAIN target[q] \cup DOMAIN w |->
                     IF c \in DOMAIN w THEN w[c] ELSE target[q][c]]
        ELSE target[q]]

\* Mutant: the splitter keeps the orchestrator's own table and adds its fold
\* column to it in place.
SplitterSharesSource == {"source"}

\* The tables the splitter's table shares its storage with: none.  sample()
\* returns a new table, copy() another, and the merge of the constructor a third.
SplitterShares == {}

\* Mutant: the sub-seed of a repeat after the first is drawn from the
\* process-wide generator when the repeat is made.
SubSeedOfLazy(rs, i) == IF i = 0 THEN rs[1] ELSE LcgNext(pyRandom) % PoolSize

\* Mutant: every repeat is shuffled with the first sub-seed.
SubSeedOfFirst(rs, i) == rs[1]

\* random_states[i], i counted from 0
SubSeedOf(rs, i) == rs[i + 1]

\* The loop body for repeat i: shuffle, construct the splitter, yield it.  An
\* exception of the constructor ends the generator.  The consumer binds the
\* splitter to the name it iterates (`bind`), or goes on with the one it holds.
YieldRepeat(k, rs, i, bind) ==
    LET sp == NewSplitter(SampleFrac1(data, SubSeedOf(rs, i)), folds)
        made == [data |-> sp.data, folds |-> sp.folds, shares |-> SplitterShares,
                 i |-> i, asyielded |-> [data |-> sp.data, folds |-> sp.folds],
                 earlier |-> <<>>]
    IN  IF sp.ok
        THEN /\ its' = [its EXCEPT ![k] = [pc |-> "suspended", random_states |-> rs, i |-> i,
                                                repeat |-> made.asyielded,
                                                before |-> IF its[k].pc = "created"
                                                           THEN pyRandom ELSE its[k].before,
                                                yields |-> Append(its[k].yields,
                                                              [i |-> i,
                                                               rows |-> [q \in DOMAIN sp.data |-> sp.data[q].row],
                                                               fold |-> [q \in DOMAIN sp.data |-> sp.data[q].fold]])]]
             /\ data' = IF "source" \in made.shares
                        THEN WriteThrough(data, made.data) ELSE data
             /\ columns' = IF "source" \in made.shares
                           THEN columns \cup {"__fold"} ELSE columns
             /\ IF bind
                THEN /\ kcv' = made
                     /\ ifold' = 0
                     /\ pair' = None
                     /\ log' = <<>>
                     /\ ret' = None
                ELSE UNCHANGED <<kcv, ifold, pair, log, ret>>
        ELSE /\ its' = [its EXCEPT ![k] = [pc |-> "raised", random_states |-> rs, i |-> i,
                                                repeat |-> its[k].repeat,
                                                before |-> IF its[k].pc = "created"
                                                           THEN pyRandom ELSE its[k].before,
                                                yields |-> its[k].yields]]
             /\ UNCHANGED <<data, columns, kcv, ifold, pair, log, ret>>

\* Mutant: random.seed(self.seed) is left out, the draw starts from whatever
\* state the process-wide generator is in.
SubSeedsUnseeded(before) == RandomSample(before, PoolSize, repeats)

\* Mutant: the torch module seeds torch and numpy but not Python's generator.
SubSeedsTorchUnseeded(before) ==
    IF module = "torch" THEN RandomSample(before, PoolSize, repeats)
    ELSE RandomSample(SeedState(seed), PoolSize, repeats)

\* Mutant: every sub-seed is drawn right after seeding, one at a time.
SubSeedsReseeded(before) ==
    LET one == RandomSample(SeedState(seed), PoolSize, 1)
    IN  IF repeats > PoolSize \/ repeats < 0
        THEN [ok |-> FALSE, state |-> SeedState(seed), out |-> <<>>]
        ELSE [ok |-> TRUE, state |-> one.state, out |-> [q \in 1..repeats |-> one.out[1]]]

\* Mutant: the pool is range(999), one value short.
SubSeedsSmallPool(before) == RandomSample(SeedState(seed), PoolSize - 1, repeats)

\* random.seed(self.seed); random.sample(range(1000), self.repeats), `before`
\* being the state of the process-wide generator when __iter__ starts
SubSeeds(before) == RandomSample(SeedState(seed), PoolSize, repeats)

\* First next(): seed the generators, draw the sub-seeds, run to the first yield.
IterStart(k) ==
    /\ its[k].pc = "created"
    /\ LET smp == SubSeeds(pyRandom)
       IN  /\ torchRandom' = IF module = "torch" THEN SeedState(seed) ELSE torchRandom
           /\ npRandom' = SeedState(seed)
           /\ pyRandom' = smp.state
           /\ IF ~smp.ok
              THEN /\ its' = [its EXCEPT ![k].pc = "raised", ![k].before = pyRandom]
                   /\ UNCHANGED <<data, columns, kcv, ifold, pair, log, ret>>
              ELSE IF repeats < 1
              THEN /\ its' = [its EXCEPT ![k] = [pc |-> "exhausted", random_states |-> smp.out,
                                                 i |-> 0, repeat |-> None,
                                                 before |-> pyRandom, yields |-> <<>>]]
                   /\ UNCHANGED <<data, columns, kcv, ifold, pair, log, ret>>
              ELSE YieldRepeat(k, smp.out, 0, TRUE)
    /\ UNCHANGED <<folds, repeats, seed, module, pandas, kwargs, census>>

\* A later next() while repeats remain: the next splitter.
IterAdvance(k) ==
    /\ its[k].pc = "suspended"
    /\ its[k].i + 1 < repeats
    /\ YieldRepeat(k, its[k].random_states, its[k].i + 1, TRUE)
    /\ UNCHANGED <<folds, repeats, seed, module, pandas, kwargs, census, pyRandom, npRandom, torchRandom>>

\* A later next() while repeats remain, by a consumer that goes on with the
\* splitter it holds.
IterAdvanceKeep(k) ==
    /\ its[k].pc = "suspended"
    /\ its[k].i + 1 < repeats
    /\ YieldRepeat(k, its[k].random_states, its[k].i + 1, FALSE)
    /\ UNCHANGED <<folds, repeats, seed, module, pandas, kwargs, census, pyRandom, npRandom, torchRandom>>

\* A later next() after the last repeat: StopIteration.
IterStop(k) ==
    /\ its[k].pc = "suspended"
    /\ its[k].i + 1 >= repeats
    /\ its' = [its EXCEPT ![k].pc = "exhausted"]
    /\ UNCHANGED <<data, columns, folds, repeats, seed, module, pandas, kwargs, census, pyRandom, npRandom, torchRandom,
                   kcv, ifold, pair, log, ret>>

----------------------------------------------------------------------------
(* _StratifiedGroupKFoldOrchestrator.__iter__, driven by the consumer *)

\* The identities of the rows of a view, in the order of the view
RowsOf(view) == [q \in DOMAIN view.data |-> view.data[q].row]

\* Position of a fold generator that has ended: past range(1, 1 + folds).
FoldDone(K) == IF K > 0 THEN K + 1 ELSE 1

\* next() on the fold generator while folds remain: the pair of fold ifold + 1,
\* or the error of _ABTDataset.__init__, which ends the generator.
FoldNext ==
    /\ kcv # None
    /\ ifold < kcv.folds
    /\ ifold # FoldDone(kcv.folds)
    /\ IF ViewColumns \subseteq columns
       THEN /\ ifold' = ifold + 1
            /\ pair' = FoldPair(module, kcv, ifold + 1)
            /\ LET written == pair'.train.data \o pair'.test.data
                   shares == ViewShares(kcv)
               IN  /\ kcv' = IF "repeat" \in shares
                             THEN [kcv EXCEPT !.data = WriteThrough(@, written)] ELSE kcv
                   /\ data' = IF "source" \in shares
                              THEN WriteThrough(data, written) ELSE data
            /\ log' = Append(log, [train |-> RowsOf(pair'.train),
                                   test |-> RowsOf(pair'.test)])
            /\ ret' = None
       ELSE /\ ifold' = FoldDone(kcv.folds)
            /\ ret' = Raised
            /\ UNCHANGED <<data, kcv, pair, log>>
    /\ UNCHANGED <<columns, folds, repeats, seed, module, pandas, kwargs, census, pyRandom, npRandom, torchRandom,
                   its>>

\* next() after the last fold of range(1, 1 + folds): StopIteration
FoldStop ==
    /\ kcv # None
    /\ ifold >= kcv.folds
    /\ ifold # FoldDone(kcv.folds)
    /\ ifold' = FoldDone(kcv.folds)
    /\ UNCHANGED <<data, columns, folds, repeats, seed, module, pandas, kwargs, census, pyRandom, npRandom, torchRandom,
                   its, kcv, pair, log, ret>>

\* iter(splitter) once more: a new generator, at the start of __iter__; the
\* consumer keeps the pair it holds.
FoldRestart ==
    /\ kcv # None
    /\ ifold >= 1
    /\ Len(kcv.earlier) < MaxIterations
    /\ kcv' = [kcv EXCEPT !.earlier = Append(@, log)]
    /\ ifold' = 0
    /\ log' = <<>>
    /\ UNCHANGED <<data, columns, folds, repeats, seed, module, pandas, kwargs, census, pyRandom, npRandom, torchRandom,
                   its, pair, ret>>

\* The consumer writes a column of the table of a view in place:
\* view.data.loc[:, "infection_momentum"] = 0.  A table that shares the storage
\* sees the write.
ConsumerWriteView(side) ==
    /\ pair # None
    /\ \E q \in DOMAIN pair[side].data : pair[side].data[q].infection_momentum # <<0>>
    /\ LET written == [q \in DOMAIN pair[side].data |->
                          [pair[side].data[q] EXCEPT !.infection_momentum = <<0>>]]
           shares == ViewShares(kcv)
       IN  /\ pair' = [pair EXCEPT ![side].data = written]
           /\ kcv' = IF "repeat" \in shares
                     THEN [kcv EXCEPT !.data = WriteThrough(@, written)] ELSE kcv
           /\ data' = IF "source" \in shares
                      THEN WriteThrough(data, written) ELSE data
    /\ UNCHANGED <<columns, folds, repeats, seed, module, pandas, kwargs, census, pyRandom, npRandom, torchRandom,
                   its, ifold, log, ret>>

\* len(view) on one side of the pair
ViewLen(side) ==
    /\ pair # None
    /\ ret' = [call |-> "len", side |-> side, i |-> 0, value |-> ViewLength(pair[side])]
    /\ UNCHANGED <<data, columns, folds, repeats, seed, module, pandas, kwargs, census, pyRandom, npRandom, torchRandom,
                   its, kcv, ifold, pair, log>>

\* view[i] on one side of the pair, 0 <= i < len(view)
ViewGetItem(side, i) ==
    /\ pair # None
    /\ i < ViewLength(pair[side])
    /\ ret' = [call |-> "getitem", side |-> side, i |-> i, value |-> GetItem(pair[side], i)]
    /\ UNCHANGED <<data, columns, folds, repeats, seed, module, pandas, kwargs, census, pyRandom, npRandom, torchRandom,
                   its, kcv, ifold, pair, log>>

\* The consumer leaves the process-wide generators in another state between two
\* steps, by reseeding them or drawing from them.
ConsumerReseed(c) ==
    /\ pyRandom' = SeedState(c)
    /\ npRandom' = SeedState(c)
    /\ torchRandom' = SeedState(c)
    /\ UNCHANGED <<data, columns, folds, repeats, seed, module, pandas, kwargs, census, its, kcv, ifold, pair, log, ret>>

\* The consumer sets the orchestrator's folds: cv.folds = K
ConsumerSetFolds(K) ==
    /\ folds # K
    /\ folds' = K
    /\ UNCHANGED <<data, columns, repeats, seed, module, pandas, kwargs, census, pyRandom, npRandom, torchRandom,
                   its, kcv, ifold, pair, log, ret>>

\* The consumer writes a column of the orchestrator's table in place:
\* cv.data.loc[:, "infection_momentum"] = 0.  A splitter whose table shares the
\* storage sees the write.
ConsumerWriteSource ==
    /\ \E q \in DOMAIN data : data[q].infection_momentum # <<0>>
    /\ data' = [q \in DOMAIN data |->
                   [data[q] EXCEPT !.infection_momentum = <<0>>]]
    /\ kcv' = IF kcv # None /\ "source" \in kcv.shares
              THEN [kcv EXCEPT !.data =
                       WriteThrough(@, [q \in DOMAIN data' |->
                                           [row |-> data'[q].row,
                                            infection_momentum |-> <<0>>]])]
              ELSE kcv
    /\ UNCHANGED <<columns, folds, repeats, seed, module, pandas, kwargs, census, pyRandom, npRandom, torchRandom,
                   its, ifold, pair, log, ret>>

----------------------------------------------------------------------------
(* The functions of trent.data.census; key is the api_key argument, t and f *)
(* the outcomes of the two requests made when the session is created, o the *)
(* outcome of the function's own request                                    *)

CensusUnchanged ==
    UNCHANGED <<data, columns, folds, repeats, seed, module, pandas, kwargs, pyRandom, npRandom, torchRandom,
                its, kcv, ifold, pair, log, ret>>

\* _init_api(key)
InitApi(key, t, f) ==
    /\ LET g == GetApiClient(census, key, t, f)
       IN  census' = [g.census EXCEPT !.ret = Outcome("_init_api", key, g, "full")]
    /\ CensusUnchanged

\* list_tables(api_key): the client, then api.tables()
ListTables(key, t, f, o) ==
    /\ LET g == GetApiClient(census, key, t, f)
       IN  census' = [g.census EXCEPT !.ret = Outcome("list_tables", key, g, o)]
    /\ CensusUnchanged

\* list_fields(api_key): the client, then api.fields()
ListFields(key, t, f, o) ==
    /\ LET g == GetApiClient(census, key, t, f)
       IN  census' = [g.census EXCEPT !.ret = Outcome("list_fields", key, g, o)]
    /\ CensusUnchanged

\* get_fields_per_county(fields, api_key=...): the client, then
\* api.state_county()
GetFieldsPerCounty(key, t, f, o) ==
    /\ LET g == GetApiClient(census, key, t, f)
       IN  census' = [g.census EXCEPT !.ret = Outcome("get_fields_per_county", key, g, o)]
    /\ CensusUnchanged

\* get_table_per_county(table, api_key=...): the fields of the table, then
\* get_fields_per_county
GetTablePerCounty(key, t, f, o) ==
    /\ LET h == GetFieldsForTable(census, key, t, f)
           g == IF h.ok THEN GetApiClient(h.census, key, t, f) ELSE h
       IN  census' = [g.census EXCEPT !.ret = Outcome("get_table_per_county", key, g, o)]
    /\ CensusUnchanged

----------------------------------------------------------------------------
(* Specifications *)

Sides == {"train", "test"}

Next ==
    \/ \E k \in DOMAIN its : IterStart(k)
    \/ \E k \in DOMAIN its : IterAdvance(k)
    \/ \E k \in DOMAIN its : IterStop(k)
    \/ FoldNext
    \/ FoldStop

NextView ==
    \/ \E k \in DOMAIN its : IterStart(k)
    \/ \E k \in DOMAIN its : IterStop(k)
    \/ FoldNext
    \/ FoldStop
    \/ \E side \in Sides : ViewLen(side)
    \/ \E side \in Sides, i \in 0..(MaxViewRows - 1) : ViewGetItem(side, i)

NextOps ==
    \/ \E k \in DOMAIN its : IterStart(k)
    \/ \E k \in DOMAIN its : IterAdvance(k)
    \/ \E k \in DOMAIN its : IterStop(k)
    \/ FoldNext
    \/ FoldStop
    \/ \E side \in Sides : ViewLen(side)
    \/ \E side \in Sides, i \in 0..(MaxOpsRows - 1) : ViewGetItem(side, i)

NextConsumer ==
    \/ \E k \in DOMAIN its : IterStart(k)
    \/ \E k \in DOMAIN its : IterAdvance(k)
    \/ \E k \in DOMAIN its : IterStop(k)
    \/ FoldNext
    \/ FoldStop
    \/ \E c \in ConsumerSeeds : ConsumerReseed(c)

NextFrozen ==
    \/ \E k \in DOMAIN its : IterStart(k)
    \/ \E k \in DOMAIN its : IterAdvance(k)
    \/ \E k \in DOMAIN its : IterAdvanceKeep(k)
    \/ \E k \in DOMAIN its : IterStop(k)
    \/ FoldNext
    \/ FoldStop
    \/ \E K \in FrozenFolds : ConsumerSetFolds(K)
    \/ ConsumerWriteSource

NextRepeats ==
    \/ \E k \in DOMAIN its : IterStart(k)
    \/ \E k \in DOMAIN its : IterAdvance(k)
    \/ \E k \in DOMAIN its : IterStop(k)

NextPair ==
    \/ \E k \in DOMAIN its : IterStart(k)
    \/ \E k \in DOMAIN its : IterAdvance(k)
    \/ \E k \in DOMAIN its : IterStop(k)
    \/ \E c \in ConsumerSeeds : ConsumerReseed(c)

Spec == Init /\ [][Next]_vars

SpecView == InitView /\ [][NextView]_vars

SpecPair == InitPair /\ [][NextPair]_vars

SpecCounts == InitCounts /\ [][Next]_vars

SpecColumns == InitColumns /\ [][Next]_vars

SpecLimit == InitLimit /\ [][NextRepeats]_vars

SpecOps == InitOps /\ [][NextOps]_vars

SpecConsumer == InitConsumer /\ [][NextConsumer]_vars

SpecFrozen == InitFrozen /\ [][NextFrozen]_vars

SpecNull == InitNull /\ [][Next]_vars

SpecConfig == InitConfig /\ [][Next]_vars

NextReiter ==
    \/ \E k \in DOMAIN its : IterStart(k)
    \/ \E k \in DOMAIN its : IterStop(k)
    \/ FoldNext
    \/ FoldStop
    \/ FoldRestart
    \/ \E side \in Sides : ConsumerWriteView(side)

SpecReiter == InitReiter /\ [][NextReiter]_vars

NextCensus ==
    \E key \in ApiKeys \cup {NoKey}, t \in ApiOutcomes, f \in ApiOutcomes :
       \/ InitApi(key, t, f)
       \/ \E o \in ApiOutcomes :
             \/ ListTables(key, t, f, o)
             \/ ListFields(key, t, f, o)
             \/ GetFieldsPerCounty(key, t, f, o)
             \/ GetTablePerCounty(key, t, f, o)

SpecCensus == InitCensus /\ [][NextCensus]_vars

----------------------------------------------------------------------------
(* Claims about the splitter *)

IdSet(ids) == {ids[q] : q \in DOMAIN ids}

CountiesOf(view) == {view.data[q].county_fip : q \in DOMAIN view.data}

\* C1 (as claimed): no county_fip has rows both in the train view and in the
\* test view of a yielded fold, whatever the table.
GroupIntegrity ==
    pair # None => CountiesOf(pair.train) \cap CountiesOf(pair.test) = {}

GroupsOf(rows, st) == {rows[q].county_fip : q \in {r \in DOMAIN rows : rows[r].state_code = st}}

GroupsInFold(rows, st, f) ==
    {rows[q].county_fip : q \in {r \in DOMAIN rows : rows[r].state_code = st /\ rows[r].fold = f}}

\* C5: in every repeat, each fold holds floor(N/K) or ceil(N/K) of the N
\* distinct groups of every stratum.
BalanceBound ==
    \A k \in DOMAIN its :
       its[k].repeat # None =>
          LET rows == its[k].repeat.data
              K == its[k].repeat.folds
          IN  \A st \in States : \A f \in 1..K :
                 LET N == Cardinality(GroupsOf(rows, st))
                     n == Cardinality(GroupsInFold(rows, st, f))
                 IN  n = N \div K \/ n = (N + K - 1) \div K

BalanceBoundWitness ==
    \E k \in DOMAIN its :
       /\ its[k].repeat # None
       /\ its[k].repeat.folds = 2
       /\ \E st \in States :
             /\ Cardinality(GroupsOf(its[k].repeat.data, st)) = 3
             /\ Cardinality(GroupsInFold(its[k].repeat.data, st, 1)) = 2
             /\ Cardinality(GroupsInFold(its[k].repeat.data, st, 2)) = 1

\* Position of the first row with keys (c, st) in a table.
FirstAt(rows, c, st) ==
    CHOOSE q \in DOMAIN rows :
       /\ rows[q].county_fip = c /\ rows[q].state_code = st
       /\ \A r \in 1..(q - 1) : ~(rows[r].county_fip = c /\ rows[r].state_code = st)

\* Number of distinct groups of stratum st first met before position q.
GroupsBefore(rows, st, q) == Cardinality(GroupsOf(SubSeq(rows, 1, q - 1), st))

ExampleRow(p, c) ==
    [row |-> p, county_fip |-> c, state_code |-> 1, acs_pop_total |-> <<1>>,
     infection_momentum |-> <<1>>, tmpf_mean |-> <<1>>, infection_target |-> <<1>>,
     unemployment_target |-> <<1>>]

\* Groups A, B, C, D = 1, 2, 3, 4 of one stratum, met in that order, over 6 rows.
ExampleRows ==
    <<ExampleRow(1, 1), ExampleRow(2, 2), ExampleRow(3, 1), ExampleRow(4, 3),
      ExampleRow(5, 4), ExampleRow(6, 2)>>

\* C6: every row of a splitter carries the fold (j mod K) + 1, j the number of
\* groups of its stratum met before its own group in the rows passed in, so
\* every fold is in 1..K; and for groups A, B, C, D of one stratum with K = 2
\* the table is A:1, B:2, C:1, D:2, fold 1 tests the rows of A and C and
\* fold 2 the rows of B and D.
RoundRobinAssignment ==
    /\ \A k \in DOMAIN its :
          its[k].repeat # None =>
             LET rows == its[k].repeat.data
                 K == its[k].repeat.folds
             IN  \A q \in DOMAIN rows :
                    /\ rows[q].fold \in 1..K
                    /\ rows[q].fold =
                          (GroupsBefore(rows, rows[q].state_code,
                                        FirstAt(rows, rows[q].county_fip, rows[q].state_code))
                           % K) + 1
    /\ kcv # None =>
          LET sp == NewSplitter(ExampleRows, 2)
          IN  /\ sp.ok
              /\ [q \in DOMAIN sp.data |-> <<sp.data[q].county_fip, sp.data[q].fold>>]
                    = <<(<<1, 1>>), (<<2, 2>>), (<<1, 1>>), (<<3, 1>>), (<<4, 2>>), (<<2, 2>>)>>
              /\ RowsOf(FoldPair(module, sp, 1).test) = <<1, 3, 4>>
              /\ RowsOf(FoldPair(module, sp, 2).test) = <<2, 5, 6>>

RoundRobinAssignmentWitness ==
    /\ kcv # None
    /\ kcv.folds = 2
    /\ \E q \in DOMAIN kcv.data :
          /\ GroupsBefore(kcv.data, kcv.data[q].state_code,
                          FirstAt(kcv.data, kcv.data[q].county_fip, kcv.data[q].state_code)) = 2
          /\ kcv.data[q].fold = 1

----------------------------------------------------------------------------
(* Claims about the orchestrator *)

Yielding(k) == its[k].pc \in {"suspended", "exhausted"} /\ its[k].repeat # None

\* C4: two orchestrators constructed with the same (data, folds, repeats,
\* seed) that have both reached repeat i hold, for repeat i, the same splitter
\* and the same train and test views fold by fold (same rows, same order, same
\* matrices), whatever the process-wide generators held when each started and
\* whatever the consumer reseeded in between.
Determinism ==
    \A k1 \in DOMAIN its : \A k2 \in DOMAIN its :
       (k1 < k2 /\ Yielding(k1) /\ Yielding(k2) /\ its[k1].i = its[k2].i) =>
          /\ its[k1].random_states = its[k2].random_states
          /\ its[k1].repeat = its[k2].repeat
          /\ AllPairs(module, its[k1].repeat) = AllPairs(module, its[k2].repeat)

\* The second repeat of both orchestrators, started from different states of
\* the Python generator, over a table that the shuffle reorders.
DeterminismWitness ==
    /\ DOMAIN its = {1, 2}
    /\ Yielding(1) /\ Yielding(2)
    /\ its[1].i = 1 /\ its[2].i = 1
    /\ its[1].before # its[2].before
    /\ Len(data) >= 2
    /\ [q \in DOMAIN data |-> its[1].repeat.data[q].row] # [q \in DOMAIN data |-> q]

----------------------------------------------------------------------------
(* Claims about the views *)

\* The views of the pair the consumer holds.
Views == IF pair = None THEN {} ELSE {pair.train, pair.test}

\* The row of the source table that row q of a view comes from.
SourceRow(view, q) == data[view.data[q].row]

\* The sum of the square roots of acs_pop_total over the source rows of a view.
SumOfRoots(view) == SumSeq([q \in DOMAIN view.data |-> ISqrt(SourceRow(view, q).acs_pop_total[1])])

\* C7 (as claimed): in every view with at least one row, of either module, the
\* weights are non-negative and sum to 1.  With the weights num[q] / sqrt(densq)
\* the sum is 1 exactly when the square of the sum of the num[q] is densq.
WeightNormalization ==
    \A view \in Views :
       view.zmat # <<>> =>
          /\ \A q \in DOMAIN view.zmat : view.zmat[q].num >= 0 /\ view.zmat[q].densq > 0
          /\ \A q \in DOMAIN view.zmat :
                LET total == SumSeq([r \in DOMAIN view.zmat |-> view.zmat[r].num])
                IN  total * total = view.zmat[q].densq

\* C8 (as claimed): in every view of either module the weight of row q is
\* sqrt(acs_pop_total of q) over the sum of the square roots over the view.
WeightDefinition ==
    \A view \in Views :
       /\ Len(view.zmat) = Len(view.data)
       /\ \A q \in DOMAIN view.zmat :
             view.zmat[q] = [num |-> ISqrt(SourceRow(view, q).acs_pop_total[1]),
                             densq |-> SumOfRoots(view) * SumOfRoots(view)]

\* C9 (as claimed): in the feature matrix a missing infection_momentum is
\* exactly 1 and a present one is the source value; every other feature,
\* target and weight-source value is the value of the source row, missing
\* where the source is missing.
ImputationExact ==
    \A view \in Views : \A q \in DOMAIN view.data :
       LET src == SourceRow(view, q)
       IN  /\ view.xmat[q][2] = (IF src.infection_momentum = NaN THEN <<1>>
                                 ELSE src.infection_momentum)
           /\ view.xmat[q][1] = src.tmpf_mean
           /\ view.ymat[q] = <<src.infection_target, src.unemployment_target>>
           /\ view.data[q].acs_pop_total = src.acs_pop_total

\* A source cell as the matrices of a module hold it: rounded to float32 by
\* the torch module, unchanged by the sklearn module.
Stored(m, c) == IF c = NaN THEN NaN ELSE IF m = "torch" THEN <<F32(c[1])>> ELSE c

\* C9 (amended): as claimed, except that a value the torch module holds is
\* the source value rounded to float32.
ImputationStored ==
    \A view \in Views : \A q \in DOMAIN view.data :
       LET src == SourceRow(view, q)
       IN  /\ view.xmat[q][2] = (IF src.infection_momentum = NaN THEN <<1>>
                                 ELSE Stored(view.module, src.infection_momentum))
           /\ view.xmat[q][1] = Stored(view.module, src.tmpf_mean)
           /\ view.ymat[q] = <<Stored(view.module, src.infection_target),
                               Stored(view.module, src.unemployment_target)>>
           /\ view.data[q].acs_pop_total = src.acs_pop_total

\* A torch view holding a row with a missing momentum, a row with a present
\* one, a missing other feature and a feature that float32 cannot hold.
ImputationStoredWitness ==
    \E view \in Views :
       /\ view.module = "torch"
       /\ \E q \in DOMAIN view.data : SourceRow(view, q).infection_momentum = NaN
       /\ \E q \in DOMAIN view.data : SourceRow(view, q).infection_momentum # NaN
       /\ \E q \in DOMAIN view.data : SourceRow(view, q).tmpf_mean = NaN
       /\ \E q \in DOMAIN view.data :
             /\ SourceRow(view, q).tmpf_mean # NaN
             /\ view.xmat[q][1] # SourceRow(view, q).tmpf_mean

\* C10 (as claimed): len(view) is the number of rows of the view and view[i]
\* is the triple (features, targets, weight) of row i, for both modules.
RowScopedAccess ==
    ret # None =>
       LET view == pair[ret.side]
       IN  /\ ret.call = "len" => ret.value = Len(view.data)
           /\ ret.call = "getitem" =>
                 ret.value = <<view.xmat[ret.i + 1], view.ymat[ret.i + 1], view.zmat[ret.i + 1]>>

----------------------------------------------------------------------------
(* Claims about failures *)

\* C11 (as claimed): an orchestrator with folds < 2 or repeats < 1 does not
\* exist, its construction having failed: no iteration of it ends without an
\* error, hands out a splitter or yields a pair.
FailFastOnBadCounts ==
    (folds < 2 \/ repeats < 1) =>
       /\ \A k \in DOMAIN its : its[k].pc \in {"created", "raised"}
       /\ kcv = None
       /\ pair = None

\* C12 (as claimed): an orchestrator over a table that lacks a column does not
\* exist, its construction having failed: no iteration of it hands out a
\* splitter, and no pair is asked of one.
FailFastOnMissingColumns ==
    columns # AllColumns =>
       /\ \A k \in DOMAIN its : its[k].pc \in {"created", "raised"} /\ its[k].repeat = None
       /\ kcv = None
       /\ pair = None /\ ret = None

\* C13: once an iteration has started, an orchestrator with more repeats than
\* the sub-seed pool holds has raised an error and handed out no splitter; with
\* 1 <= repeats <= 1000 the draw has not failed, and has given `repeats`
\* distinct sub-seeds of the pool.
RepeatLimit ==
    \A k \in DOMAIN its :
       its[k].pc # "created" =>
          IF repeats > PoolSize
          THEN its[k].pc = "raised" /\ its[k].repeat = None /\ kcv = None
          ELSE repeats >= 1 =>
                  /\ its[k].pc # "raised"
                  /\ Len(its[k].random_states) = repeats
                  /\ Range(its[k].random_states) \subseteq 0..(PoolSize - 1)
                  /\ Cardinality(Range(its[k].random_states)) = repeats

RepeatLimitWitness ==
    \E k \in DOMAIN its : repeats > PoolSize /\ its[k].pc = "raised"

----------------------------------------------------------------------------
(* Claims about the two sequences *)

\* The number of next() calls a generator of the orchestrator can still answer
\* with something other than StopIteration, plus one.
Rank(g) ==
    CASE g.pc = "created" -> repeats + 1
      [] g.pc = "suspended" -> repeats - g.i
      [] OTHER -> 0

\* C14: what one iteration has yielded so far is the repeat indices 0, 1, 2, ...
\* in that order and never more than `repeats` of them; the splitter it yielded
\* last holds the rows in the order of the permutation of the sub-seed of its
\* index; it is exhausted only after `repeats` yields; no next() raises; and
\* every next() on it brings it strictly closer to exhaustion: the iteration
\* ends with the call number repeats + 1.
RepeatSequence ==
    /\ [](\A k \in DOMAIN its :
             LET g == its[k]
             IN  /\ \A q \in DOMAIN g.yields : g.yields[q].i = q - 1
                 /\ Len(g.yields) <= repeats
                 /\ g.pc # "raised"
                 /\ g.pc = "created" => g.yields = <<>>
                 /\ g.pc = "exhausted" => Len(g.yields) = repeats
                 /\ g.pc = "suspended" =>
                       /\ Len(g.yields) = g.i + 1
                       /\ g.repeat.folds = folds
                       /\ RowsOf(g.repeat) =
                             RowsOf([data |-> SampleFrac1(data, g.random_states[g.i + 1])]))
    /\ [][\A k \in DOMAIN its :
             /\ Rank(its[k]) >= 0
             /\ its'[k] # its[k] => Rank(its'[k]) < Rank(its[k])]_vars

RepeatSequenceWitness ==
    \E k \in DOMAIN its :
       /\ its[k].pc = "exhausted"
       /\ Len(its[k].yields) >= 2
       /\ Len(data) >= 2

\* The identities of the rows of a splitter whose assigned fold is in fs, in the
\* order of the splitter's table.
RowsAssigned(splitter, fs) ==
    LET InFolds(r) == r.fold \in fs
    IN  RowsOf([data |-> SelectSeq(splitter.data, InFolds)])

\* C15: the pairs one iteration of a splitter has yielded so far are those of
\* folds 1, 2, ... in ascending order, one each and never more than K; it ends
\* only after K pairs; the test view of the pair of fold f holds exactly the
\* rows assigned to f and its train view exactly the rows assigned to a fold of
\* {1..K} other than f.
FoldSequence ==
    kcv # None =>
       LET K == kcv.folds
       IN  /\ ifold \in 0..(K + 1)
           /\ Len(log) = IF ifold > K THEN K ELSE ifold
           /\ \A f \in DOMAIN log :
                 /\ log[f].test = RowsAssigned(kcv, {f})
                 /\ log[f].train = RowsAssigned(kcv, (1..K) \ {f})
           /\ ifold \in 1..K =>
                 /\ pair # None
                 /\ RowsOf(pair.test) = log[ifold].test
                 /\ RowsOf(pair.train) = log[ifold].train
           /\ ret # Raised

FoldSequenceWitness ==
    /\ kcv # None
    /\ kcv.folds = 3
    /\ ifold = kcv.folds + 1
    /\ log[3].test # <<>>
    /\ log[1].train # <<>>

----------------------------------------------------------------------------
(* Claims about what the steps leave alone *)

\* C16: no operation (starting an iteration, advancing it, ending it, asking a
\* splitter for a pair, taking the length of a view or an item of it) changes
\* the orchestrator's table: same rows, same order, same values in every
\* column, same columns.
SourceUnchanged == [][data' = data /\ columns' = columns]_vars

\* A view that imputed a missing infection_momentum has been indexed, in the
\* second repeat, and the row is still missing its value in the source.
SourceUnchangedWitness ==
    /\ pair # None
    /\ ret # None /\ ret # Raised /\ ret.call = "getitem"
    /\ \E k \in DOMAIN its : its[k].pc = "suspended" /\ its[k].i >= 1
    /\ \E v \in Views : \E q \in DOMAIN v.data :
          /\ v.data[q].infection_momentum = <<ImputeValue>>
          /\ data[v.data[q].row].infection_momentum = NaN
          /\ "fold" \in DOMAIN v.data[q]
          /\ "fold" \notin DOMAIN data[v.data[q].row]

\* The sub-seeds of an iteration that nothing disturbs: those drawn right after
\* the generator is seeded with `seed`.
QuietSubSeeds == RandomSample(SeedState(seed), PoolSize, repeats).out

\* C17: an iteration that has started holds all its `repeats` sub-seeds, the
\* ones of an undisturbed iteration, and no later step changes them; whatever
\* state the consumer has left the process-wide generators in and however many
\* folds it has consumed, the rows of the splitter yielded last are in the order
\* of the permutation of the undisturbed sub-seed of its index.
SubSeedsFixed ==
    /\ [](\A k \in DOMAIN its :
             its[k].pc \in {"suspended", "exhausted"} =>
                /\ Len(its[k].random_states) = repeats
                /\ its[k].random_states = QuietSubSeeds
                /\ \A q \in DOMAIN its[k].yields :
                      its[k].yields[q].rows =
                         RowsOf([data |-> SampleFrac1(data, QuietSubSeeds[q])]))
    /\ [][\A k \in DOMAIN its :
             its[k].pc # "created" => its'[k].random_states = its[k].random_states]_vars

\* The consumer has left the generators in another state than the iteration
\* did and has consumed folds; the iteration is at its second repeat or later,
\* over a table that the second shuffle reorders.
SubSeedsFixedWitness ==
    \E k \in DOMAIN its :
       /\ its[k].pc = "suspended"
       /\ its[k].i >= 1
       /\ \E c \in ConsumerSeeds : pyRandom = SeedState(c)
       /\ ifold >= 1
       /\ its[k].yields[2].rows # [q \in DOMAIN data |-> q]

\* C18 (as claimed): a next() on an iteration of the orchestrator changes
\* nothing outside the iterator: not the orchestrator's fields, not the state of
\* the process-wide generators of Python, numpy and torch.
NoSideEffectOfIterating ==
    [][(\E k \in DOMAIN its : its'[k] # its[k]) =>
          /\ <<data, columns, folds, repeats, seed>>' = <<data, columns, folds, repeats, seed>>
          /\ pyRandom' = pyRandom
          /\ npRandom' = npRandom
          /\ torchRandom' = torchRandom]_vars

\* C19: every iteration of the orchestrator starts at repeat 0, and any two
\* iterations of it, however interleaved and however far each was taken, have
\* yielded the same repeats (same rows in the same order, same folds) as far as
\* both have gone.
RestartFromZero ==
    /\ \A k \in DOMAIN its : its[k].yields # <<>> => its[k].yields[1].i = 0
    /\ \A k1 \in DOMAIN its : \A k2 \in DOMAIN its :
          \A q \in DOMAIN its[k1].yields \cap DOMAIN its[k2].yields :
             its[k1].yields[q] = its[k2].yields[q]

\* One iteration run to exhaustion, another started from another state of the
\* Python generator and taken to its second repeat, over a table that the
\* second shuffle reorders.
RestartFromZeroWitness ==
    /\ DOMAIN its = {1, 2}
    /\ its[1].pc = "exhausted"
    /\ its[2].pc = "suspended"
    /\ its[2].i >= 1
    /\ its[1].before # its[2].before
    /\ its[2].yields[2].rows # [q \in DOMAIN data |-> q]

\* The fold of the pair the fold generator yielded last.
LastFold == IF ifold > kcv.folds THEN kcv.folds ELSE ifold

\* C20: the splitter the consumer holds is as it was when it was yielded (same
\* rows in the same order with the same values, same fold of every row, same
\* folds), whatever happened since: the orchestrator advanced to later repeats,
\* its table written or its folds set by the consumer, views constructed and
\* imputed; and every pair it yields is the pair of the splitter as yielded.
FrozenRepeat ==
    kcv # None =>
       /\ kcv.data = kcv.asyielded.data
       /\ kcv.folds = kcv.asyielded.folds
       /\ pair # None => pair = FoldPair(module, kcv.asyielded, LastFold)
       /\ \A f \in DOMAIN log :
             /\ log[f].train = RowsOf(FoldPair(module, kcv.asyielded, f).train)
             /\ log[f].test = RowsOf(FoldPair(module, kcv.asyielded, f).test)

\* The consumer holds the splitter of repeat 0 and a pair of it with an imputed
\* row, the orchestrator has advanced past it, and its table and its folds are
\* no longer those the splitter was made from.
FrozenRepeatWitness ==
    /\ kcv # None /\ kcv.i = 0
    /\ \E k \in DOMAIN its : its[k].i >= 1
    /\ folds # kcv.folds
    /\ \E q \in DOMAIN kcv.data :
          /\ kcv.data[q].infection_momentum = NaN
          /\ data[kcv.data[q].row].infection_momentum = <<0>>
    /\ pair # None
    /\ Len(log) >= 2
    /\ \E v \in Views : \E q \in DOMAIN v.data :
          v.data[q].infection_momentum = <<ImputeValue>>

\* C21: a row whose state_code or county_fip is missing is kept: the splitter
\* is constructed, every row of its table has a fold number in 1..K, and every
\* row of the source table is in exactly one side of every yielded pair.
NullKeysKept ==
    /\ \A k \in DOMAIN its : its[k].pc # "raised"
    /\ kcv # None => \A q \in DOMAIN kcv.data : kcv.data[q].fold \in 1..kcv.folds
    /\ pair # None =>
          \A p \in DOMAIN data :
             (p \in IdSet(RowsOf(pair.train))) # (p \in IdSet(RowsOf(pair.test)))

\* C22: a pair is yielded only after the per-fold check: the lengths of its two
\* views add up to the row count of the splitter's table, and no row of that
\* table is in neither view or in both; otherwise the fold generator has
\* failed instead of yielding.
PerFoldIntegrity ==
    pair # None =>
       LET train == RowsOf(pair.train)
           test == RowsOf(pair.test)
       IN  /\ Len(train) + Len(test) = Len(kcv.data)
           /\ IdSet(train) \cap IdSet(test) = {}
           /\ IdSet(train) \cup IdSet(test) = IdSet(RowsOf(kcv))

\* C23: in every view the feature matrix, the target matrix and the weight
\* vector have as many rows as the view; at every position the features, the
\* targets and the weight are those of one source row, the row of the view at
\* that position; every feature row is the fixed list of feature columns in
\* its order and every target row is (infection target, unemployment target);
\* for the train and the test view of every fold of every repeat.
AlignedTriple ==
    \A view \in Views :
       /\ Len(view.xmat) = ViewLength(view)
       /\ Len(view.ymat) = ViewLength(view)
       /\ Len(view.zmat) = ViewLength(view)
       /\ \A q \in 1..ViewLength(view) :
             LET src == Impute(<<SourceRow(view, q)>>)[1]
             IN  /\ view.data[q].row = src.row
                 /\ view.xmat[q] = <<Stored(view.module, src.tmpf_mean),
                                     Stored(view.module, src.infection_momentum)>>
                 /\ view.ymat[q] = <<Stored(view.module, src.infection_target),
                                     Stored(view.module, src.unemployment_target)>>
                 /\ view.zmat[q].num = ISqrt(src.acs_pop_total[1])

\* A pair of repeat 1 of either module whose train view holds two rows with
\* different weight sources, not in the order of the source table, and whose
\* test view holds a row.
AlignedTripleWitness ==
    /\ pair # None /\ kcv.i = 1
    /\ ViewLength(pair.test) >= 1
    /\ ViewLength(pair.train) >= 2
    /\ pair.train.data[1].row > pair.train.data[2].row
    /\ pair.train.data[1].acs_pop_total # pair.train.data[2].acs_pop_total

\* C24: a constructor call with any of the options folds, repeats, seed,
\* feature_columns, target_columns, weight_source_column, group_column and
\* stratum_column makes an orchestrator, whose folds, repeats and seed are
\* the given ones or the defaults 5, 1 and 0, and the views of which hold the
\* configured feature and target columns.
ConfigurationSurface ==
    /\ ret # Raised
    /\ DOMAIN its # {}
    /\ folds = Arg(kwargs, "folds", 5)
    /\ repeats = Arg(kwargs, "repeats", 1)
    /\ seed = Arg(kwargs, "seed", 0)
    /\ \A view \in Views : \A q \in DOMAIN view.data :
          /\ Len(view.xmat[q]) = Len(Arg(kwargs, "feature_columns", view.xmat[q]))
          /\ Len(view.ymat[q]) = Len(Arg(kwargs, "target_columns", view.ymat[q]))

\* C25: for the shuffled table of every repeat of a started iteration the fold
\* table has exactly one entry per distinct (county_fip, state_code) pair of
\* the rows, and the join gives every row exactly once, in order: the
\* assertion on the row count holds.  A generator that raised did so in the
\* transform, and every splitter yielded holds the rows of its shuffle.
JoinKeepsRows ==
    \A k \in DOMAIN its :
       /\ \A i \in DOMAIN its[k].random_states :
             LET rows == SampleFrac1(data, its[k].random_states[i])
                 lookup == Lookup(rows)
                 merged == Merge(rows, lookup, FoldColumn(lookup, folds))
             IN  /\ Cardinality(IdSet(lookup)) = Len(lookup)
                 /\ IdSet(lookup) = {<<rows[q].county_fip, rows[q].state_code>> :
                                        q \in DOMAIN rows}
                 /\ Len(merged) = Len(rows)
                 /\ RowsOf([data |-> merged]) = RowsOf([data |-> rows])
       /\ its[k].pc = "raised" => TransformRaises(Lookup(data))
       /\ \A y \in DOMAIN its[k].yields :
             its[k].yields[y].rows =
                RowsOf([data |-> SampleFrac1(data, its[k].random_states[its[k].yields[y].i + 1])])

\* A splitter was yielded for a table of two rows with the same keys, both
\* of them missing.
JoinKeepsRowsWitness ==
    /\ kcv # None
    /\ Len(kcv.data) = 2
    /\ \A q \in DOMAIN kcv.data :
          kcv.data[q].county_fip = NullKey /\ kcv.data[q].state_code = NullKey

\* C26: what an iteration has yielded is the same for the torch and for the
\* sklearn module: its sub-seeds are the sample drawn after seeding Python's
\* generator with `seed`, whichever module runs; the rows of every repeat are
\* those of the shuffle with the sub-seed of its index; and the train and test
\* views of every fold yielded hold the rows, in the order, that the views of
\* the torch module and those of the sklearn module hold for that fold.
SplitterEquivalence ==
    /\ \A k \in DOMAIN its :
          its[k].pc \in {"suspended", "exhausted"} =>
             LET rs == RandomSample(SeedState(seed), PoolSize, repeats).out
             IN  /\ its[k].random_states = rs
                 /\ \A y \in DOMAIN its[k].yields :
                       LET sp == NewSplitter(SampleFrac1(data, rs[its[k].yields[y].i + 1]),
                                             folds)
                       IN  /\ its[k].yields[y].rows = RowsOf(sp)
                           /\ its[k].yields[y].fold =
                                 [q \in DOMAIN sp.data |-> sp.data[q].fold]
    /\ kcv # None =>
          \A f \in DOMAIN log : \A m \in Modules :
             /\ log[f].train = RowsOf(FoldPair(m, kcv, f).train)
             /\ log[f].test = RowsOf(FoldPair(m, kcv, f).test)
    /\ pair # None =>
          \A m \in Modules :
             /\ RowsOf(pair.train) = RowsOf(FoldPair(m, kcv, LastFold).train)
             /\ RowsOf(pair.test) = RowsOf(FoldPair(m, kcv, LastFold).test)

\* The torch module at the last fold of its second repeat, whose shuffle
\* reorders the table.
SplitterEquivalenceWitness ==
    /\ module = "torch"
    /\ kcv # None /\ kcv.i = 1
    /\ Len(log) = kcv.folds
    /\ pair # None /\ pair.train.data # <<>> /\ pair.test.data # <<>>
    /\ RowsOf(kcv) # [q \in DOMAIN data |-> q]

\* C27: the table of a splitter, fold numbers included, stays as constructed
\* through every iteration over it and every write to a view; the iterations
\* over it agree on the rows of the pair of every fold, and one that ends has
\* yielded K pairs; every next() yields the pair made from the table as
\* constructed and changes neither that table nor the source; a write to the
\* table of a view changes neither the other view, nor the splitter's table,
\* nor the source.
ReIterable ==
    /\ [](kcv # None =>
             /\ kcv.data = kcv.asyielded.data
             /\ kcv.folds = kcv.asyielded.folds
             /\ ifold > kcv.folds => Len(log) = kcv.folds
             /\ \A e \in DOMAIN kcv.earlier :
                   /\ Len(kcv.earlier[e]) \in 1..kcv.folds
                   /\ \A f \in DOMAIN kcv.earlier[e] \cap DOMAIN log :
                         kcv.earlier[e][f] = log[f]
                   /\ \A d \in DOMAIN kcv.earlier :
                         \A f \in DOMAIN kcv.earlier[e] \cap DOMAIN kcv.earlier[d] :
                            kcv.earlier[e][f] = kcv.earlier[d][f])
    /\ [][(kcv # None /\ Len(log') = Len(log) + 1) =>
             /\ pair' = FoldPair(module, kcv.asyielded, ifold')
             /\ kcv' = kcv
             /\ data' = data]_vars
    /\ [][(pair # None /\ pair' # pair /\ log' = log) =>
             /\ \E side \in Sides : \A other \in Sides \ {side} : pair'[other] = pair[other]
             /\ kcv' = kcv
             /\ data' = data]_vars

\* After a complete iteration over the splitter, a later iteration has yielded
\* a pair; the consumer has written its train view, which holds a row whose
\* momentum is missing in the source, and not its test view.
ReIterableWitness ==
    /\ kcv # None
    /\ Len(kcv.earlier) >= 1
    /\ Len(kcv.earlier[1]) = kcv.folds
    /\ Len(log) >= 1
    /\ pair # None
    /\ \E q \in DOMAIN pair.train.data :
          /\ pair.train.data[q].infection_momentum = <<0>>
          /\ data[pair.train.data[q].row].infection_momentum = NaN
    /\ \E q \in DOMAIN pair.test.data :
          pair.test.data[q].infection_momentum # <<0>>

\* C28: the sub-seeds of a started iteration are `repeats` pairwise different
\* integers of 0..999; repeats of different index are shuffled with different
\* sub-seeds, each with the one of its index; and the sub-seed of index i is
\* element i of the sample drawn after seeding with `seed`, which nothing but
\* seed, repeats and i enters.
SubSeedsDistinct ==
    \A k \in DOMAIN its :
       its[k].pc \in {"suspended", "exhausted"} =>
          LET rs == its[k].random_states
              ys == its[k].yields
          IN  /\ Len(rs) = repeats
              /\ \A a \in DOMAIN rs : rs[a] \in 0..999
              /\ \A a \in DOMAIN rs : \A b \in DOMAIN rs : a # b => rs[a] # rs[b]
              /\ \A a \in DOMAIN rs :
                    rs[a] = RandomSample(SeedState(seed), PoolSize, repeats).out[a]
              /\ \A y \in DOMAIN ys :
                    /\ ys[y].rows = RowsOf([data |-> SampleFrac1(data, SubSeedOf(rs, ys[y].i))])
                    /\ \A z \in DOMAIN ys :
                          y # z => SubSeedOf(rs, ys[y].i) # SubSeedOf(rs, ys[z].i)

\* An iteration with seed 1 that has yielded two repeats and ended, the
\* process-wide generator having been left in a consumer's state.
SubSeedsDistinctWitness ==
    \E k \in DOMAIN its :
       /\ its[k].pc = "exhausted"
       /\ Len(its[k].yields) = 2
       /\ seed = 1
       /\ \E c \in ConsumerSeeds : pyRandom = SeedState(c)

\* C29: with K >= 2, when some state_code has K or more distinct county_fip,
\* the train view and the test view of every pair yielded hold a row, in
\* every repeat; when none has, the iteration over the splitter yields all its
\* K pairs without an error, and the test view of one of them is empty.
NonEmptyFolds ==
    (kcv # None /\ kcv.folds >= 2) =>
       LET K == kcv.folds
       IN  IF \E st \in States : Cardinality(GroupsOf(kcv.data, st)) >= K
           THEN /\ \A f \in DOMAIN log : log[f].train # <<>> /\ log[f].test # <<>>
                /\ pair # None => pair.train.data # <<>> /\ pair.test.data # <<>>
           ELSE /\ ret # Raised
                /\ \A k \in DOMAIN its : its[k].pc # "raised"
                /\ ifold >= K => /\ Len(log) = K
                                 /\ \E f \in DOMAIN log : log[f].test = <<>>

\* The second repeat of three folds over a table of three counties of one
\* state, all its pairs yielded.
NonEmptyFoldsWitness ==
    /\ kcv # None /\ kcv.i = 1 /\ kcv.folds = 3
    /\ \E st \in States : Cardinality(GroupsOf(kcv.data, st)) = 3
    /\ Len(log) = 3

\* The number of times a cache was assigned.
FilledCount(cache) ==
    Cardinality({q \in DOMAIN census.filled : census.filled[q] = cache})

\* C30: over every sequence of calls of the census functions at most one
\* session is created, and it is the module's session; every call that gets a
\* client gets that session, whatever key it passes; a session once set is
\* never replaced; each cache is assigned at most once, and only in the call
\* that creates the session.
CensusSingleton ==
    /\ [](/\ Len(census.created) <= 1
          /\ census.created = IF census.API_SESSION = None THEN <<>>
                              ELSE <<census.API_SESSION>>
          /\ FilledCount("tables") <= 1
          /\ FilledCount("fields") <= 1
          /\ (census.ret # None /\ census.ret.session # None) =>
                census.ret.session = census.API_SESSION)
    /\ [][/\ census.API_SESSION # None => census'.API_SESSION = census.API_SESSION
          /\ census'.filled # census.filled =>
                census.API_SESSION = None /\ census'.API_SESSION # None
          /\ census'.filled = census.filled =>
                /\ census'.API_TABLES = census.API_TABLES
                /\ census'.API_FIELDS = census.API_FIELDS]_vars

\* A call that passed another key than the session's has returned, with the
\* session made by an earlier call and the caches filled then.
CensusSingletonWitness ==
    /\ census.API_SESSION # None
    /\ census.ret # None /\ census.ret.ok
    /\ census.ret.key \in ApiKeys \ {census.API_SESSION.key}
    /\ census.ret.session = census.API_SESSION
    /\ census.API_TABLES # {} /\ census.API_FIELDS # {}

====
